---- MODULE Spec2Model ----
(***************************************************************************)
(* State-machine model of the task-tracking canister of src/src/index.ts:  *)
(* two stable tables (userStorage keyed by caller principal, taskStorage   *)
(* keyed by a generated id) and the eight public canister methods.  Each   *)
(* method is one atomic step (one message execution of the canister).      *)
(***************************************************************************)
EXTENDS Integers, Sequences, FiniteSets, TLC

\* ---------------------------------------------------------------- bounds
MaxTime == 2
MaxTasks == 2
MaxWrites == 3

\* ---------------------------------------------------------------- inputs
\* Caller principals (ic.caller()) and their textual form (Principal.toText).
Principals == {1, 2}

PrincipalText == <<"2vxsx-fae", "rrkah-fqaaa">>

toText(p) == PrincipalText[p]

\* Identifiers uuidv4() can return (stand-ins for uuid strings, in key order).
TaskIds == 1..MaxTasks

\* Task ids a caller can pass: the generated ones and one never generated.
CallIds == 0..MaxTasks

\* ic.time() readings.
Times == 0..MaxTime

\* Whitespace characters as matched by \s / excluded by \S.
Whitespace == {" "}

\* Texts are sequences of characters so that the email regex is computed.
Names == {"", "A"}

Emails ==
  { <<>>,
    <<"a", "@", "b", ".", "c">>,
    <<" ", "x", "@", "y", ".", "z", " ">>,
    <<"a", "b", ".", "c">>,
    <<"a", "@", ".", "c">>,
    <<"a", "@", " ", ".", "c">> }

Titles == {"", "T"}

Descriptions == {"", "D"}

UserPayloads == [name : Names, email : Emails]

TaskPayloads == [title : Titles, description : Descriptions]

VARIABLES
  userStorage,  \* StableBTreeMap(Principal, User, 0)
  taskStorage,  \* StableBTreeMap(text, Task, 1)
  now,          \* current reading of ic.time()
  issued,       \* ids uuidv4() has returned so far
  deleted,      \* ids removed by deleteMyTask and not returned by uuidv4() since
  toggleBase,   \* per id: the task as it was before an unpaired toggle from isCompleted = false
  writes,       \* number of calls so far that changed a table
  inflight,     \* per slot: a method execution suspended between its read and its write-back
  expect,       \* per id: the task as the calls that returned Ok leave it, one after the other
  overlapped    \* ids on which two suspended executions were in flight together

vars == <<userStorage, taskStorage, now, issued, deleted, toggleBase, writes,
          inflight, expect, overlapped>>

\* ---------------------------------------------------------------- helpers
Ok(v) == [tag |-> "Ok", value |-> v]

Err(kind, msg) == [tag |-> kind, value |-> msg]

EmptyMap == [k \in {} |-> 0]

\* StableBTreeMap.insert: insert-or-replace under key k.
insert(m, k, v) == [x \in (DOMAIN m) \cup {k} |-> IF x = k THEN v ELSE m[x]]

\* StableBTreeMap.remove.
remove(m, k) == [x \in (DOMAIN m) \ {k} |-> m[x]]

MaxKey(S) == CHOOSE k \in S : \A j \in S : j <= k

\* StableBTreeMap.values: the stored values in key order.
RECURSIVE values(_)
values(m) ==
  IF DOMAIN m = {} THEN <<>>
  ELSE LET k == MaxKey(DOMAIN m) IN Append(values(remove(m, k)), m[k])

\* userStorage.containsKey(id), over the table as it is at the call.
isUserExists(users, id) == id \in DOMAIN users

\* taskStorage.containsKey(id)
isTaskExists(tasks, id) == id \in DOMAIN tasks

\* The email test without the dot: /\S+@\S+/.
isEmailValid_noDot(email) ==
  \E p \in 2..(Len(email) - 1) :
    /\ email[p] = "@"
    /\ email[p - 1] \notin Whitespace
    /\ email[p + 1] \notin Whitespace

\* /\S+@\S+\.\S+/.test(email): an unanchored match.  p is the position of
\* '@', q that of the '.', with one non-whitespace before '@', a non-empty
\* run of non-whitespace between them and one non-whitespace after '.'.
isEmailValid(email) ==
  \E p \in 2..Len(email) :
    /\ email[p] = "@"
    /\ email[p - 1] \notin Whitespace
    /\ \E q \in (p + 2)..(Len(email) - 1) :
         /\ email[q] = "."
         /\ email[q + 1] \notin Whitespace
         /\ \A k \in (p + 1)..(q - 1) : email[k] \notin Whitespace

\* !payload.name || !payload.email
isUserPayloadMissing(payload) == payload.name = "" \/ payload.email = <<>>

\* !payload.title
isTitleMissing(payload) == payload.title = ""

\* An ownership test that lets every caller through.
isNotTaskOwner_never(task, caller) == FALSE

\* task.owner.toText() !== ic.caller().toText()
isNotTaskOwner(task, caller) == toText(task.owner) # toText(caller)

\* ---------------------------------------------------------------- records
\* { id: ic.caller(), createdAt: ic.time(), updatedAt: ic.time(), ...payload }
\* (ic.time() is constant within one message execution: both reads give time.)
newUser(caller, payload, time) ==
  [id |-> caller, createdAt |-> time, updatedAt |-> time,
   name |-> payload.name, email |-> payload.email]

\* A profile update that also restamps createdAt.
updatedUser_restamped(user, payload, time) ==
  [id |-> user.id, createdAt |-> time, updatedAt |-> time,
   name |-> payload.name, email |-> payload.email]

\* { ...user, ...payload, updatedAt: ic.time() }
updatedUser(user, payload, time) ==
  [id |-> user.id, createdAt |-> user.createdAt, updatedAt |-> time,
   name |-> payload.name, email |-> payload.email]

\* A new task that starts out completed.
newTask_completed(id, caller, payload, time) ==
  [id |-> id, isCompleted |-> TRUE, owner |-> caller,
   createdAt |-> time, updatedAt |-> time,
   title |-> payload.title, description |-> payload.description]

\* A new task whose id is a constant instead of the generated value.
newTask_constantId(id, caller, payload, time) ==
  [id |-> 1, isCompleted |-> FALSE, owner |-> caller,
   createdAt |-> time, updatedAt |-> time,
   title |-> payload.title, description |-> payload.description]

\* { id: uuidv4(), isCompleted: false, owner: ic.caller(),
\*   createdAt: ic.time(), updatedAt: ic.time(), ...payload }
newTask(id, caller, payload, time) ==
  [id |-> id, isCompleted |-> FALSE, owner |-> caller,
   createdAt |-> time, updatedAt |-> time,
   title |-> payload.title, description |-> payload.description]

\* An update that stamps the time of the message on createdAt instead of updatedAt.
updatedTask_stampsCreated(task, payload, time) ==
  [id |-> task.id, isCompleted |-> task.isCompleted, owner |-> task.owner,
   createdAt |-> time, updatedAt |-> task.updatedAt,
   title |-> payload.title, description |-> payload.description]

\* An update that marks the task as not completed.
updatedTask_reopened(task, payload, time) ==
  [id |-> task.id, isCompleted |-> FALSE, owner |-> task.owner,
   createdAt |-> task.createdAt, updatedAt |-> time,
   title |-> payload.title, description |-> payload.description]

\* { ...task, ...payload, updatedAt: ic.time() }
updatedTask(task, payload, time) ==
  [id |-> task.id, isCompleted |-> task.isCompleted, owner |-> task.owner,
   createdAt |-> task.createdAt, updatedAt |-> time,
   title |-> payload.title, description |-> payload.description]

\* A toggle that marks the task completed instead of flipping the flag.
toggledTask_complete(task, time) ==
  [id |-> task.id, isCompleted |-> TRUE, owner |-> task.owner,
   createdAt |-> task.createdAt, updatedAt |-> time,
   title |-> task.title, description |-> task.description]

\* A toggle that writes an empty description instead of the stored one.
toggledTask_blankDescription(task, time) ==
  [id |-> task.id, isCompleted |-> ~task.isCompleted, owner |-> task.owner,
   createdAt |-> task.createdAt, updatedAt |-> time,
   title |-> task.title, description |-> ""]

\* { ...task, isCompleted: !task.isCompleted, updatedAt: ic.time() }
toggledTask(task, time) ==
  [id |-> task.id, isCompleted |-> ~task.isCompleted, owner |-> task.owner,
   createdAt |-> task.createdAt, updatedAt |-> time,
   title |-> task.title, description |-> task.description]

\* ---------------------------------------------------------------- methods
\* A method is a function of the two tables, the time of the message, the
\* caller and the arguments; it yields the returned value and the tables
\* after the call.
Outcome(res, users, tasks) ==
  [res |-> res, userStorage |-> users, taskStorage |-> tasks]

UserMissing == Err("Unauthorized", "Invalid operation: User does not exist")

TaskMissing(id) == Err("NotFound", <<"Task not found with id ", id>>)

NotOwner == Err("Forbidden", "Invalid operation: You are not the task owner")

\* createUser without its already-exists check: a second registration replaces the record.
createUserCall_noExists(users, tasks, time, caller, payload) ==
  IF isUserPayloadMissing(payload)
    THEN Outcome(Err("BadRequest", "Invalid input: Name and email are required"), users, tasks)
  ELSE IF ~isEmailValid(payload.email)
    THEN Outcome(Err("BadRequest", "Invalid input: Email is not valid"), users, tasks)
  ELSE LET user == newUser(caller, payload, time) IN
       Outcome(Ok(user), insert(users, user.id, user), tasks)


createUserCall(users, tasks, time, caller, payload) ==
  IF isUserPayloadMissing(payload)
    THEN Outcome(Err("BadRequest", "Invalid input: Name and email are required"), users, tasks)
  ELSE IF ~isEmailValid(payload.email)
    THEN Outcome(Err("BadRequest", "Invalid input: Email is not valid"), users, tasks)
  ELSE IF isUserExists(users, caller)
    THEN Outcome(Err("BadRequest", "Invalid input: User already exists"), users, tasks)
  ELSE LET user == newUser(caller, payload, time) IN
       Outcome(Ok(user), insert(users, user.id, user), tasks)

getMeCall(users, tasks, caller) ==
  IF ~isUserExists(users, caller) THEN Outcome(UserMissing, users, tasks)
  ELSE Outcome(Ok(users[caller]), users, tasks)

\* updateMe making a record for a caller that has none.
updateMeCall_upsert(users, tasks, time, caller, payload) ==
  IF isUserPayloadMissing(payload)
    THEN Outcome(Err("BadRequest", "Invalid input: Name and email are required"), users, tasks)
  ELSE IF ~isEmailValid(payload.email)
    THEN Outcome(Err("BadRequest", "Invalid input: Email is not valid"), users, tasks)
  ELSE LET user == IF isUserExists(users, caller)
                     THEN updatedUser(users[caller], payload, time)
                     ELSE newUser(caller, payload, time) IN
       Outcome(Ok(user), insert(users, user.id, user), tasks)

updateMeCall(users, tasks, time, caller, payload) ==
  IF ~isUserExists(users, caller) THEN Outcome(UserMissing, users, tasks)
  ELSE IF isUserPayloadMissing(payload)
    THEN Outcome(Err("BadRequest", "Invalid input: Name and email are required"), users, tasks)
  ELSE IF ~isEmailValid(payload.email)
    THEN Outcome(Err("BadRequest", "Invalid input: Email is not valid"), users, tasks)
  ELSE LET user == updatedUser(users[caller], payload, time) IN
       Outcome(Ok(user), insert(users, user.id, user), tasks)

\* createTask without its registration check.
createTaskCall_noAuth(users, tasks, time, caller, payload, uuid) ==
  IF isTitleMissing(payload)
    THEN Outcome(Err("BadRequest", "Invalid input: Title is required"), users, tasks)
  ELSE LET task == newTask(uuid, caller, payload, time) IN
       Outcome(Ok(task), users, insert(tasks, task.id, task))

\* uuid is the value uuidv4() returns if the method gets as far as calling it.
createTaskCall(users, tasks, time, caller, payload, uuid) ==
  IF ~isUserExists(users, caller) THEN Outcome(UserMissing, users, tasks)
  ELSE IF isTitleMissing(payload)
    THEN Outcome(Err("BadRequest", "Invalid input: Title is required"), users, tasks)
  ELSE LET task == newTask(uuid, caller, payload, time) IN
       Outcome(Ok(task), users, insert(tasks, task.id, task))

\* getMyTasks without its registration check.
getMyTasksCall_noAuth(users, tasks, caller) ==
  Outcome(Ok(SelectSeq(values(tasks),
                       LAMBDA task : toText(task.owner) = toText(caller))),
          users, tasks)


\* getMyTasks returning every stored task, whoever owns it.
getMyTasksCall_unfiltered(users, tasks, caller) ==
  IF ~isUserExists(users, caller)
    THEN Outcome(Err("Unauthorized", "Create an account first"), users, tasks)
  ELSE Outcome(Ok(values(tasks)), users, tasks)

getMyTasksCall(users, tasks, caller) ==
  IF ~isUserExists(users, caller)
    THEN Outcome(Err("Unauthorized", "Create an account first"), users, tasks)
  ELSE Outcome(Ok(SelectSeq(values(tasks),
                            LAMBDA task : toText(task.owner) = toText(caller))),
               users, tasks)

\* updateMyTask looking the task up before it validates the title.
updateMyTaskCall_lookupFirst(users, tasks, time, caller, id, payload) ==
  IF ~isUserExists(users, caller) THEN Outcome(UserMissing, users, tasks)
  ELSE IF ~isTaskExists(tasks, id) THEN Outcome(TaskMissing(id), users, tasks)
  ELSE IF isNotTaskOwner(tasks[id], caller) THEN Outcome(NotOwner, users, tasks)
  ELSE IF isTitleMissing(payload)
    THEN Outcome(Err("BadRequest", "Invalid input: Title is required"), users, tasks)
  ELSE LET task == updatedTask(tasks[id], payload, time) IN
       Outcome(Ok(task), users, insert(tasks, task.id, task))


\* updateMyTask without its owner test.
updateMyTaskCall_anyone(users, tasks, time, caller, id, payload) ==
  IF ~isUserExists(users, caller) THEN Outcome(UserMissing, users, tasks)
  ELSE IF isTitleMissing(payload)
    THEN Outcome(Err("BadRequest", "Invalid input: Title is required"), users, tasks)
  ELSE IF ~isTaskExists(tasks, id) THEN Outcome(TaskMissing(id), users, tasks)
  ELSE LET task == updatedTask(tasks[id], payload, time) IN
       Outcome(Ok(task), users, insert(tasks, task.id, task))

updateMyTaskCall(users, tasks, time, caller, id, payload) ==
  IF ~isUserExists(users, caller) THEN Outcome(UserMissing, users, tasks)
  ELSE IF isTitleMissing(payload)
    THEN Outcome(Err("BadRequest", "Invalid input: Title is required"), users, tasks)
  ELSE IF ~isTaskExists(tasks, id) THEN Outcome(TaskMissing(id), users, tasks)
  ELSE IF isNotTaskOwner(tasks[id], caller) THEN Outcome(NotOwner, users, tasks)
  ELSE LET task == updatedTask(tasks[id], payload, time) IN
       Outcome(Ok(task), users, insert(tasks, task.id, task))

\* toggleMyTask storing the flipped task before it tests the owner.
toggleMyTaskCall_writeFirst(users, tasks, time, caller, id) ==
  IF ~isUserExists(users, caller) THEN Outcome(UserMissing, users, tasks)
  ELSE IF ~isTaskExists(tasks, id) THEN Outcome(TaskMissing(id), users, tasks)
  ELSE LET task == toggledTask(tasks[id], time) IN
       IF isNotTaskOwner(tasks[id], caller)
         THEN Outcome(NotOwner, users, insert(tasks, task.id, task))
       ELSE Outcome(Ok(task), users, insert(tasks, task.id, task))

toggleMyTaskCall(users, tasks, time, caller, id) ==
  IF ~isUserExists(users, caller) THEN Outcome(UserMissing, users, tasks)
  ELSE IF ~isTaskExists(tasks, id) THEN Outcome(TaskMissing(id), users, tasks)
  ELSE IF isNotTaskOwner(tasks[id], caller) THEN Outcome(NotOwner, users, tasks)
  ELSE LET task == toggledTask(tasks[id], time) IN
       Outcome(Ok(task), users, insert(tasks, task.id, task))

\* deleteMyTask answering Ok for an id that is not stored.
deleteMyTaskCall_idempotent(users, tasks, caller, id) ==
  IF ~isUserExists(users, caller) THEN Outcome(UserMissing, users, tasks)
  ELSE IF ~isTaskExists(tasks, id)
    THEN Outcome(Ok("Task deleted successfully"), users, tasks)
  ELSE IF isNotTaskOwner(tasks[id], caller) THEN Outcome(NotOwner, users, tasks)
  ELSE Outcome(Ok("Task deleted successfully"), users, remove(tasks, tasks[id].id))


\* deleteMyTask answering Ok without removing the task.
deleteMyTaskCall_keep(users, tasks, caller, id) ==
  IF ~isUserExists(users, caller) THEN Outcome(UserMissing, users, tasks)
  ELSE IF ~isTaskExists(tasks, id) THEN Outcome(TaskMissing(id), users, tasks)
  ELSE IF isNotTaskOwner(tasks[id], caller) THEN Outcome(NotOwner, users, tasks)
  ELSE Outcome(Ok("Task deleted successfully"), users, tasks)


\* deleteMyTask removing every task of the caller along with the one named.
deleteMyTaskCall_allMine(users, tasks, caller, id) ==
  IF ~isUserExists(users, caller) THEN Outcome(UserMissing, users, tasks)
  ELSE IF ~isTaskExists(tasks, id) THEN Outcome(TaskMissing(id), users, tasks)
  ELSE IF isNotTaskOwner(tasks[id], caller) THEN Outcome(NotOwner, users, tasks)
  ELSE Outcome(Ok("Task deleted successfully"), users,
               [x \in {k \in DOMAIN tasks : tasks[k].owner # caller} |-> tasks[x]])

deleteMyTaskCall(users, tasks, caller, id) ==
  IF ~isUserExists(users, caller) THEN Outcome(UserMissing, users, tasks)
  ELSE IF ~isTaskExists(tasks, id) THEN Outcome(TaskMissing(id), users, tasks)
  ELSE IF isNotTaskOwner(tasks[id], caller) THEN Outcome(NotOwner, users, tasks)
  ELSE Outcome(Ok("Task deleted successfully"), users, remove(tasks, tasks[id].id))

\* ---------------------------------------------------------------- faults
\* Every method body is one try block. A call of the store (containsKey,
\* get, values, insert, remove) either completes or throws and has no
\* effect; fault.at is the position, among the store calls the execution
\* makes, of the call that throws (0: none does), fault.text what `${error}`
\* yields for the thrown value.
StoreCallsMax == 4

FaultTexts == {"Error: out of memory", "Error: failed to decode"}

NoFault == [at |-> 0, text |-> ""]

Faults == {NoFault} \cup [at : 1..StoreCallsMax, text : FaultTexts]

\* The execution makes `calls` store calls when none throws.
thrown(fault, calls) == fault.at \in 1..calls

\* A handler that hands the caller the text of what was thrown.
caught_detail(fault) == Err("InternalError", fault.text)

\* catch (error) { return Err({ InternalError: 'Internal server error' }) }
caught(fault) == Err("InternalError", "Internal server error")

\* catch (error) { return Err({ InternalError: `${error}` }) }
caughtVerbatim(fault) == Err("InternalError", fault.text)

\* try { ... } catch (error) { ... }: the insert or remove is the last store
\* call of a body, so a throwing call leaves both tables as they are.
tryCatch(out, calls, fault, handled, users, tasks) ==
  IF thrown(fault, calls) THEN Outcome(handled, users, tasks) ELSE out

\* Store calls of createUser: none if the payload is rejected, containsKey,
\* then insert.
createUserStoreCalls(res) ==
  IF res.tag = "Ok" THEN 2
  ELSE IF res.value = "Invalid input: User already exists" THEN 1
  ELSE 0

\* getMe: containsKey, get. getMyTasks: containsKey, values.
\* createTask: containsKey, insert.
twoStoreCalls(res) == IF res.tag = "Ok" THEN 2 ELSE 1

\* updateMe: containsKey, get, insert.
updateMeStoreCalls(res) == IF res.tag = "Ok" THEN 3 ELSE 1

\* updateMyTask, toggleMyTask, deleteMyTask: containsKey of the user table,
\* containsKey of the task table, get, then insert or remove.
taskStoreCalls(res) ==
  IF res.tag = "Ok" THEN 4
  ELSE IF res.tag = "Forbidden" THEN 3
  ELSE IF res.tag = "NotFound" THEN 2
  ELSE 1

createUserTry(users, tasks, time, caller, payload, fault) ==
  LET out == createUserCall(users, tasks, time, caller, payload) IN
  tryCatch(out, createUserStoreCalls(out.res), fault, caught(fault), users, tasks)

getMeTry(users, tasks, caller, fault) ==
  LET out == getMeCall(users, tasks, caller) IN
  tryCatch(out, twoStoreCalls(out.res), fault, caught(fault), users, tasks)

updateMeTry(users, tasks, time, caller, payload, fault) ==
  LET out == updateMeCall(users, tasks, time, caller, payload) IN
  tryCatch(out, updateMeStoreCalls(out.res), fault, caught(fault), users, tasks)

createTaskTry(users, tasks, time, caller, payload, uuid, fault) ==
  LET out == createTaskCall(users, tasks, time, caller, payload, uuid) IN
  tryCatch(out, twoStoreCalls(out.res), fault, caught(fault), users, tasks)

getMyTasksTry(users, tasks, caller, fault) ==
  LET out == getMyTasksCall(users, tasks, caller) IN
  tryCatch(out, twoStoreCalls(out.res), fault, caughtVerbatim(fault), users, tasks)

updateMyTaskTry(users, tasks, time, caller, id, payload, fault) ==
  LET out == updateMyTaskCall(users, tasks, time, caller, id, payload) IN
  tryCatch(out, taskStoreCalls(out.res), fault, caught(fault), users, tasks)

toggleMyTaskTry(users, tasks, time, caller, id, fault) ==
  LET out == toggleMyTaskCall(users, tasks, time, caller, id) IN
  tryCatch(out, taskStoreCalls(out.res), fault, caught(fault), users, tasks)

deleteMyTaskTry(users, tasks, caller, id, fault) ==
  LET out == deleteMyTaskCall(users, tasks, caller, id) IN
  tryCatch(out, taskStoreCalls(out.res), fault, caught(fault), users, tasks)

\* ---------------------------------------------------------------- read and write-back apart
\* updateMyTask, toggleMyTask and deleteMyTask read the task
\* (taskStorage.get(id).Some) and later write it back (insert of the spread
\* copy, or remove). A host that suspends an execution between the two lets
\* another execution run in between; each slot holds one such execution.
Slots == {1, 2}

Idle == [phase |-> "idle"]

Returned == [phase |-> "returned"]

NoPayload == [title |-> "", description |-> ""]

\* The execution holds `task`, the record it read.
Reading(op, id, payload, task) ==
  [phase |-> "read", op |-> op, id |-> id, payload |-> payload, task |-> task]

\* The method up to its owner test: the error it returns, or Ok with the
\* task it read.
readMyTask(users, tasks, caller, id, op, payload) ==
  IF ~isUserExists(users, caller) THEN UserMissing
  ELSE IF op = "updateMyTask" /\ isTitleMissing(payload)
    THEN Err("BadRequest", "Invalid input: Title is required")
  ELSE IF ~isTaskExists(tasks, id) THEN TaskMissing(id)
  ELSE IF isNotTaskOwner(tasks[id], caller) THEN NotOwner
  ELSE Ok(tasks[id])

\* A write-back that never removes.
writeBack_noRemove(tasks, op, task, payload, time) ==
  IF op = "updateMyTask"
    THEN LET new == updatedTask(task, payload, time) IN insert(tasks, new.id, new)
  ELSE IF op = "toggleMyTask"
    THEN LET new == toggledTask(task, time) IN insert(tasks, new.id, new)
  ELSE tasks

\* The rest of the method: the copy of the task it read is inserted under
\* its id, or the id is removed; no test of what the table holds by then.
writeBack(tasks, op, task, payload, time) ==
  IF op = "updateMyTask"
    THEN LET new == updatedTask(task, payload, time) IN insert(tasks, new.id, new)
  ELSE IF op = "toggleMyTask"
    THEN LET new == toggledTask(task, time) IN insert(tasks, new.id, new)
  ELSE remove(tasks, task.id)

NoExpect == [known |-> FALSE]

Gone == [known |-> TRUE, gone |-> TRUE]

\* What the three methods change of a task.
ContentOf(task) ==
  [known |-> TRUE, gone |-> FALSE, title |-> task.title,
   description |-> task.description, isCompleted |-> task.isCompleted]

\* The change of one call that returned Ok, made to the content `base`.
Effect(op, payload, base) ==
  IF base.gone THEN base
  ELSE IF op = "updateMyTask"
    THEN [base EXCEPT !.title = payload.title, !.description = payload.description]
  ELSE IF op = "toggleMyTask" THEN [base EXCEPT !.isCompleted = ~base.isCompleted]
  ELSE Gone

\* ---------------------------------------------------------------- steps
NoBase == [set |-> FALSE]

\* The fields a toggle is to leave alone, as they are before the first of a pair.
BaseOf(task) ==
  [set |-> TRUE, id |-> task.id, title |-> task.title,
   description |-> task.description, owner |-> task.owner,
   createdAt |-> task.createdAt, isCompleted |-> task.isCompleted]

\* One message execution: the tables become those of the method's outcome.
\* At most MaxWrites executions change a table.
Apply(out) ==
  /\ userStorage' = out.userStorage
  /\ taskStorage' = out.taskStorage
  /\ now' = now
  /\ writes' = IF <<out.userStorage, out.taskStorage>> # <<userStorage, taskStorage>>
                 THEN writes + 1 ELSE writes
  /\ writes' <= MaxWrites
  /\ UNCHANGED <<inflight, expect, overlapped>>

Init ==
  /\ userStorage = EmptyMap
  /\ taskStorage = EmptyMap
  /\ now = 0
  /\ issued = {}
  /\ deleted = {}
  /\ toggleBase = [id \in TaskIds |-> NoBase]
  /\ writes = 0
  /\ inflight = [s \in Slots |-> Idle]
  /\ expect = [id \in TaskIds |-> NoExpect]
  /\ overlapped = {}

\* The replica's clock advances between message executions.
Tick ==
  /\ now < MaxTime
  /\ now' = now + 1
  /\ UNCHANGED <<userStorage, taskStorage, issued, deleted, toggleBase, writes,
                 inflight, expect, overlapped>>

createUser ==
  \E caller \in Principals, payload \in UserPayloads :
    /\ Apply(createUserCall(userStorage, taskStorage, now, caller, payload))
    /\ UNCHANGED <<issued, deleted, toggleBase>>

getMe ==
  \E caller \in Principals :
    /\ Apply(getMeCall(userStorage, taskStorage, caller))
    /\ UNCHANGED <<issued, deleted, toggleBase>>

updateMe ==
  \E caller \in Principals, payload \in UserPayloads :
    /\ Apply(updateMeCall(userStorage, taskStorage, now, caller, payload))
    /\ UNCHANGED <<issued, deleted, toggleBase>>

\* createTask with uuidv4() drawing from ids.
createTaskFrom(ids) ==
  \E caller \in Principals, payload \in TaskPayloads, uuid \in ids :
    LET out == createTaskCall(userStorage, taskStorage, now, caller, payload, uuid) IN
    /\ Apply(out)
    /\ issued' = IF out.res.tag = "Ok" THEN issued \cup {uuid} ELSE issued
    /\ deleted' = IF out.res.tag = "Ok" THEN deleted \ {uuid} ELSE deleted
    /\ toggleBase' = IF out.res.tag = "Ok" THEN [toggleBase EXCEPT ![uuid] = NoBase]
                     ELSE toggleBase

\* uuidv4() never repeats a value.
createTask == createTaskFrom(TaskIds \ issued)

\* uuidv4() may return any value, one it returned before included.
createTaskRepeat == createTaskFrom(TaskIds)

getMyTasks ==
  \E caller \in Principals :
    /\ Apply(getMyTasksCall(userStorage, taskStorage, caller))
    /\ UNCHANGED <<issued, deleted, toggleBase>>

updateMyTask ==
  \E caller \in Principals, id \in CallIds, payload \in TaskPayloads :
    LET out == updateMyTaskCall(userStorage, taskStorage, now, caller, id, payload) IN
    /\ Apply(out)
    /\ toggleBase' = IF out.res.tag = "Ok" THEN [toggleBase EXCEPT ![id] = NoBase]
                     ELSE toggleBase
    /\ UNCHANGED <<issued, deleted>>

toggleMyTask ==
  \E caller \in Principals, id \in CallIds :
    LET out == toggleMyTaskCall(userStorage, taskStorage, now, caller, id) IN
    /\ Apply(out)
    /\ toggleBase' =
         IF out.res.tag # "Ok" THEN toggleBase
         ELSE IF ~taskStorage[id].isCompleted
           THEN [toggleBase EXCEPT ![id] = BaseOf(taskStorage[id])]
         ELSE [toggleBase EXCEPT ![id] = NoBase]
    /\ UNCHANGED <<issued, deleted>>

deleteMyTask ==
  \E caller \in Principals, id \in CallIds :
    LET out == deleteMyTaskCall(userStorage, taskStorage, caller, id) IN
    /\ Apply(out)
    /\ deleted' = IF out.res.tag = "Ok" THEN deleted \cup {id} ELSE deleted
    /\ toggleBase' = IF out.res.tag = "Ok" THEN [toggleBase EXCEPT ![id] = NoBase]
                     ELSE toggleBase
    /\ UNCHANGED issued

Next ==
  \/ createUser
  \/ getMe
  \/ updateMe
  \/ createTask
  \/ getMyTasks
  \/ updateMyTask
  \/ toggleMyTask
  \/ deleteMyTask
  \/ Tick

Spec == Init /\ [][Next]_vars

NextRepeat ==
  \/ createUser
  \/ getMe
  \/ updateMe
  \/ createTaskRepeat
  \/ getMyTasks
  \/ updateMyTask
  \/ toggleMyTask
  \/ deleteMyTask
  \/ Tick

SpecRepeat == Init /\ [][NextRepeat]_vars

\* ---------------------------------------------------------------- steps with store faults
createUserFaulty ==
  \E caller \in Principals, payload \in UserPayloads, fault \in Faults :
    /\ Apply(createUserTry(userStorage, taskStorage, now, caller, payload, fault))
    /\ UNCHANGED <<issued, deleted, toggleBase>>

getMeFaulty ==
  \E caller \in Principals, fault \in Faults :
    /\ Apply(getMeTry(userStorage, taskStorage, caller, fault))
    /\ UNCHANGED <<issued, deleted, toggleBase>>

updateMeFaulty ==
  \E caller \in Principals, payload \in UserPayloads, fault \in Faults :
    /\ Apply(updateMeTry(userStorage, taskStorage, now, caller, payload, fault))
    /\ UNCHANGED <<issued, deleted, toggleBase>>

createTaskFaulty ==
  \E caller \in Principals, payload \in TaskPayloads, uuid \in TaskIds \ issued,
     fault \in Faults :
    LET out == createTaskTry(userStorage, taskStorage, now, caller, payload, uuid, fault) IN
    /\ Apply(out)
    /\ issued' = IF out.res.tag = "Ok" THEN issued \cup {uuid} ELSE issued
    /\ deleted' = IF out.res.tag = "Ok" THEN deleted \ {uuid} ELSE deleted
    /\ toggleBase' = IF out.res.tag = "Ok" THEN [toggleBase EXCEPT ![uuid] = NoBase]
                     ELSE toggleBase

getMyTasksFaulty ==
  \E caller \in Principals, fault \in Faults :
    /\ Apply(getMyTasksTry(userStorage, taskStorage, caller, fault))
    /\ UNCHANGED <<issued, deleted, toggleBase>>

updateMyTaskFaulty ==
  \E caller \in Principals, id \in CallIds, payload \in TaskPayloads, fault \in Faults :
    LET out == updateMyTaskTry(userStorage, taskStorage, now, caller, id, payload, fault) IN
    /\ Apply(out)
    /\ toggleBase' = IF out.res.tag = "Ok" THEN [toggleBase EXCEPT ![id] = NoBase]
                     ELSE toggleBase
    /\ UNCHANGED <<issued, deleted>>

toggleMyTaskFaulty ==
  \E caller \in Principals, id \in CallIds, fault \in Faults :
    LET out == toggleMyTaskTry(userStorage, taskStorage, now, caller, id, fault) IN
    /\ Apply(out)
    /\ toggleBase' =
         IF out.res.tag # "Ok" THEN toggleBase
         ELSE IF ~taskStorage[id].isCompleted
           THEN [toggleBase EXCEPT ![id] = BaseOf(taskStorage[id])]
         ELSE [toggleBase EXCEPT ![id] = NoBase]
    /\ UNCHANGED <<issued, deleted>>

deleteMyTaskFaulty ==
  \E caller \in Principals, id \in CallIds, fault \in Faults :
    LET out == deleteMyTaskTry(userStorage, taskStorage, caller, id, fault) IN
    /\ Apply(out)
    /\ deleted' = IF out.res.tag = "Ok" THEN deleted \cup {id} ELSE deleted
    /\ toggleBase' = IF out.res.tag = "Ok" THEN [toggleBase EXCEPT ![id] = NoBase]
                     ELSE toggleBase
    /\ UNCHANGED issued

NextFault ==
  \/ createUserFaulty
  \/ getMeFaulty
  \/ updateMeFaulty
  \/ createTaskFaulty
  \/ getMyTasksFaulty
  \/ updateMyTaskFaulty
  \/ toggleMyTaskFaulty
  \/ deleteMyTaskFaulty

\* The store may throw in any call. The messages are those of one round of
\* the replica, which all read the same ic.time().
SpecFault == Init /\ [][NextFault]_vars

\* ---------------------------------------------------------------- steps with read and write-back apart
\* The first part of a call in slot s: it returns its error, or reads the task and is suspended.
beginMyTask(s, op, caller, id, payload) ==
  /\ inflight[s] = Idle
  /\ LET res == readMyTask(userStorage, taskStorage, caller, id, op, payload) IN
     IF res.tag # "Ok" THEN UNCHANGED <<inflight, overlapped>>
     ELSE /\ inflight' = [inflight EXCEPT ![s] = Reading(op, id, payload, res.value)]
          /\ overlapped' =
               IF \E r \in Slots \ {s} : inflight[r].phase = "read" /\ inflight[r].id = id
                 THEN overlapped \cup {id} ELSE overlapped
  /\ UNCHANGED <<userStorage, taskStorage, now, issued, deleted, toggleBase, writes, expect>>

beginUpdateMyTask ==
  \E s \in Slots, caller \in Principals, id \in CallIds, payload \in TaskPayloads :
    beginMyTask(s, "updateMyTask", caller, id, payload)

beginToggleMyTask ==
  \E s \in Slots, caller \in Principals, id \in CallIds :
    beginMyTask(s, "toggleMyTask", caller, id, NoPayload)

beginDeleteMyTask ==
  \E s \in Slots, caller \in Principals, id \in CallIds :
    beginMyTask(s, "deleteMyTask", caller, id, NoPayload)

\* The second part: the write-back, and the return of Ok.
finishMyTask ==
  \E s \in Slots :
    /\ inflight[s].phase = "read"
    /\ LET call == inflight[s]
           base == IF expect[call.id].known THEN expect[call.id]
                   ELSE ContentOf(taskStorage[call.id])
       IN /\ taskStorage' = writeBack(taskStorage, call.op, call.task, call.payload, now)
          /\ expect' = [expect EXCEPT ![call.id] = Effect(call.op, call.payload, base)]
          /\ deleted' = IF call.op = "deleteMyTask" THEN deleted \cup {call.id} ELSE deleted
          /\ toggleBase' = [toggleBase EXCEPT ![call.id] = NoBase]
    /\ inflight' = [inflight EXCEPT ![s] = Returned]
    /\ UNCHANGED <<userStorage, now, issued, writes, overlapped>>

NextSplit ==
  \/ createUser
  \/ createTask
  \/ beginUpdateMyTask
  \/ beginToggleMyTask
  \/ beginDeleteMyTask
  \/ finishMyTask

\* A host that may suspend two executions between read and write-back; all
\* of it within one reading of ic.time().
SpecSplit == Init /\ [][NextSplit]_vars

\* ---------------------------------------------------------------- claims
Registered == DOMAIN userStorage

Stored == DOMAIN taskStorage

Range(seq) == {seq[i] : i \in 1..Len(seq)}

\* The calls of the current state, at the current time.
GetMe(c) == getMeCall(userStorage, taskStorage, c)

UpdateMe(c, p) == updateMeCall(userStorage, taskStorage, now, c, p)

CreateUser(c, p) == createUserCall(userStorage, taskStorage, now, c, p)

CreateTask(c, p, uuid) == createTaskCall(userStorage, taskStorage, now, c, p, uuid)

GetMyTasks(c) == getMyTasksCall(userStorage, taskStorage, c)

UpdateMyTask(c, id, p) == updateMyTaskCall(userStorage, taskStorage, now, c, id, p)

ToggleMyTask(c, id) == toggleMyTaskCall(userStorage, taskStorage, now, c, id)

DeleteMyTask(c, id) == deleteMyTaskCall(userStorage, taskStorage, c, id)

\* C1: in every reachable state, an identity with no user record gets
\* Unauthorized from getMe, updateMe, createTask, getMyTasks, updateMyTask,
\* toggleMyTask and deleteMyTask, whatever payload or task id it passes.
C1_UnregisteredIsUnauthorized ==
  \A c \in Principals \ Registered :
    /\ GetMe(c).res.tag = "Unauthorized"
    /\ GetMyTasks(c).res.tag = "Unauthorized"
    /\ \A p \in UserPayloads : UpdateMe(c, p).res.tag = "Unauthorized"
    /\ \A p \in TaskPayloads, uuid \in TaskIds :
         CreateTask(c, p, uuid).res.tag = "Unauthorized"
    /\ \A id \in CallIds :
         /\ ToggleMyTask(c, id).res.tag = "Unauthorized"
         /\ DeleteMyTask(c, id).res.tag = "Unauthorized"
         /\ \A p \in TaskPayloads : UpdateMyTask(c, id, p).res.tag = "Unauthorized"

\* An unregistered identity faces both a task of another user and an id that is not stored.
C1_Witness ==
  /\ Principals \ Registered # {}
  /\ Stored # {}
  /\ CallIds \ Stored # {}

\* C2: createUser by an identity that already has a record returns
\* BadRequest and leaves the user table as it was: still one record for that
\* identity, with the same name, email, createdAt and updatedAt.
C2_SecondRegistrationRejected ==
  \A c \in Registered, p \in UserPayloads :
    LET out == CreateUser(c, p) IN
    /\ out.res.tag = "BadRequest"
    /\ DOMAIN out.userStorage = Registered
    /\ out.userStorage[c] = userStorage[c]
    /\ out.userStorage = userStorage

\* A registered identity registers again with a valid payload that differs from its record,
\* at a time later than its registration.
C2_Witness ==
  \E c \in Registered, p \in UserPayloads :
    /\ CreateUser(c, p).res = Err("BadRequest", "Invalid input: User already exists")
    /\ p.email # userStorage[c].email
    /\ now > userStorage[c].createdAt

\* C3 as stated: every identity other than the owner, registered or not and
\* with any payload, gets Forbidden from updateMyTask, toggleMyTask and
\* deleteMyTask, and the task table keeps the task unchanged.
C3_AnyNonOwnerForbidden ==
  \A id \in Stored, c \in Principals :
    c # taskStorage[id].owner =>
      /\ ToggleMyTask(c, id).res.tag = "Forbidden"
      /\ ToggleMyTask(c, id).taskStorage = taskStorage
      /\ DeleteMyTask(c, id).res.tag = "Forbidden"
      /\ DeleteMyTask(c, id).taskStorage = taskStorage
      /\ \A p \in TaskPayloads :
           /\ UpdateMyTask(c, id, p).res.tag = "Forbidden"
           /\ UpdateMyTask(c, id, p).taskStorage = taskStorage

\* C3 (amended): for a stored task and a caller other than its owner, the
\* task table is unchanged by updateMyTask, toggleMyTask and deleteMyTask;
\* a registered caller gets Forbidden from toggleMyTask and deleteMyTask and,
\* with a non-empty title, from updateMyTask.
C3_NonOwnerForbidden ==
  \A id \in Stored, c \in Principals :
    c # taskStorage[id].owner =>
      /\ ToggleMyTask(c, id).taskStorage = taskStorage
      /\ DeleteMyTask(c, id).taskStorage = taskStorage
      /\ \A p \in TaskPayloads : UpdateMyTask(c, id, p).taskStorage = taskStorage
      /\ c \in Registered =>
           /\ ToggleMyTask(c, id).res.tag = "Forbidden"
           /\ DeleteMyTask(c, id).res.tag = "Forbidden"
           /\ \A p \in TaskPayloads :
                p.title # "" => UpdateMyTask(c, id, p).res.tag = "Forbidden"

\* A registered identity that is not the owner faces a stored task.
C3_Witness ==
  \E id \in Stored, c \in Registered :
    /\ c # taskStorage[id].owner
    /\ ToggleMyTask(c, id).res = NotOwner

\* C4 as stated: updateMyTask, toggleMyTask and deleteMyTask with an id that
\* is not a key of the task table return NotFound, for any caller and payload.
C4_AnyCallNotFound ==
  \A id \in CallIds \ Stored, c \in Principals :
    /\ ToggleMyTask(c, id).res.tag = "NotFound"
    /\ DeleteMyTask(c, id).res.tag = "NotFound"
    /\ \A p \in TaskPayloads : UpdateMyTask(c, id, p).res.tag = "NotFound"

\* C4 (amended): a registered caller gets NotFound from toggleMyTask and
\* deleteMyTask and, with a non-empty title, from updateMyTask, when the id
\* is not a key of the task table.
C4_RegisteredCallNotFound ==
  \A id \in CallIds \ Stored, c \in Registered :
    /\ ToggleMyTask(c, id).res = TaskMissing(id)
    /\ DeleteMyTask(c, id).res = TaskMissing(id)
    /\ \A p \in TaskPayloads :
         p.title # "" => UpdateMyTask(c, id, p).res = TaskMissing(id)

\* A registered identity faces an id that was generated and removed and one never generated.
C4_Witness ==
  /\ Registered # {}
  /\ deleted \ Stored # {}
  /\ 0 \notin Stored

\* C5: createTask by a registered identity with a non-empty title, with a
\* fresh id from uuidv4(), returns a task that is not completed, is owned by
\* the caller, has createdAt = updatedAt and carries the payload's title and
\* description; getMyTasks right after it returns what it returned before
\* plus exactly that task.
C5_CreateTaskAddsOne ==
  \A c \in Registered, p \in TaskPayloads, uuid \in TaskIds \ issued :
    p.title # "" =>
      LET out == CreateTask(c, p, uuid)
          t == out.res.value
          listed == GetMyTasks(c).res.value
          after == getMyTasksCall(out.userStorage, out.taskStorage, c).res.value
      IN /\ out.res.tag = "Ok"
         /\ t.isCompleted = FALSE
         /\ t.owner = c
         /\ t.createdAt = t.updatedAt
         /\ t.title = p.title
         /\ t.description = p.description
         /\ t \notin Range(listed)
         /\ Range(after) = Range(listed) \cup {t}
         /\ Len(after) = Len(listed) + 1

\* An identity has created a task when it had none and another when it had one.
C5_Witness ==
  \E c \in Registered :
    LET listed == GetMyTasks(c).res.value IN
    /\ Len(listed) = 2
    /\ \A i \in 1..2 :
         /\ listed[i].owner = c
         /\ ~listed[i].isCompleted
         /\ listed[i].createdAt = listed[i].updatedAt

\* C6: a toggleMyTask by the owner returns and stores the task with
\* isCompleted flipped, updatedAt set to the time of the call (so strictly
\* larger whenever the time source has advanced) and every other field as it
\* was; the second of two successive toggles of a task that was not
\* completed returns isCompleted = false again with title, description,
\* owner, id and createdAt as before the first.
C6_ToggleRoundTrip ==
  \A id \in Stored :
    LET x == taskStorage[id]
        out == ToggleMyTask(x.owner, id)
        r == out.res.value
        b == toggleBase[id]
    IN /\ out.res.tag = "Ok"
       /\ DOMAIN out.taskStorage = Stored
       /\ out.taskStorage[id] = r
       /\ r.isCompleted = ~x.isCompleted
       /\ BaseOf(r) = [BaseOf(x) EXCEPT !.isCompleted = r.isCompleted]
       /\ r.updatedAt = now
       /\ now > x.updatedAt => r.updatedAt > x.updatedAt
       /\ b.set =>
            /\ ~b.isCompleted
            /\ x.isCompleted
            /\ BaseOf(x) = [b EXCEPT !.isCompleted = TRUE]
            /\ BaseOf(r) = b

\* A task was toggled from not completed at a time later than its creation, nothing else
\* has changed it since, and the time source has advanced again for the second toggle.
C6_Witness ==
  \E id \in Stored :
    /\ toggleBase[id].set
    /\ taskStorage[id].isCompleted
    /\ taskStorage[id].updatedAt > taskStorage[id].createdAt
    /\ now > taskStorage[id].updatedAt

\* C7 as stated: once deleteMyTask has removed a task, and until uuidv4()
\* returns its id again, the id is not in the task table, no getMyTasks
\* lists it, and updateMyTask, toggleMyTask and deleteMyTask on it return
\* NotFound for any caller and payload.
C7_DeletedIsNotFoundForAll ==
  \A id \in deleted :
    /\ id \notin Stored
    /\ \A c \in Registered :
         \A t \in Range(GetMyTasks(c).res.value) : t.id # id
    /\ \A c \in Principals :
         /\ ToggleMyTask(c, id).res.tag = "NotFound"
         /\ DeleteMyTask(c, id).res.tag = "NotFound"
         /\ \A p \in TaskPayloads : UpdateMyTask(c, id, p).res.tag = "NotFound"

\* C7 (amended): once deleteMyTask has removed a task, and until uuidv4()
\* returns its id again, the id is not in the task table, no getMyTasks
\* lists it, and a registered caller gets NotFound from toggleMyTask and
\* deleteMyTask on it and, with a non-empty title, from updateMyTask.
C7_DeletedIsNotFound ==
  \A id \in deleted :
    /\ id \notin Stored
    /\ \A c \in Registered :
         /\ \A t \in Range(GetMyTasks(c).res.value) : t.id # id
         /\ ToggleMyTask(c, id).res = TaskMissing(id)
         /\ DeleteMyTask(c, id).res = TaskMissing(id)
         /\ \A p \in TaskPayloads :
              p.title # "" => UpdateMyTask(c, id, p).res = TaskMissing(id)

\* A task has been deleted and its id not generated again; its owner is still registered.
C7_Witness ==
  \E id \in deleted, c \in Registered :
    /\ id \in issued
    /\ GetMyTasks(c).res = Ok(<<>>)
    /\ DeleteMyTask(c, id).res = TaskMissing(id)

\* A non-empty text without whitespace.
IsSolid(text) == Len(text) >= 1 /\ \A i \in 1..Len(text) : text[i] \notin Whitespace

\* The email contains non-whitespace, '@', non-whitespace, '.', non-whitespace.
ContainsShape(email) ==
  \E i, at, dot, j \in 1..Len(email) :
    /\ email[at] = "@"
    /\ email[dot] = "."
    /\ IsSolid(SubSeq(email, i, at - 1))
    /\ IsSolid(SubSeq(email, at + 1, dot - 1))
    /\ IsSolid(SubSeq(email, dot + 1, j))

\* The emails a caller can pass that lack the shape.
ShapelessEmails == {email \in Emails : ~ContainsShape(email)}

BadUserPayload(p) == p.name = "" \/ p.email = <<>> \/ p.email \in ShapelessEmails

\* C8: createUser with an empty name, an empty email or an email that does
\* not contain the shape returns BadRequest and leaves both tables as they
\* were, whether or not the caller is registered.
C8_BadPayloadRejected ==
  \A c \in Principals, p \in UserPayloads :
    BadUserPayload(p) =>
      LET out == CreateUser(c, p) IN
      /\ out.res.tag = "BadRequest"
      /\ out.userStorage = userStorage
      /\ out.taskStorage = taskStorage

\* A registered and an unregistered caller, with a task stored, each pass a named payload
\* whose email lacks the shape.
C8_Witness ==
  /\ Stored # {}
  /\ \E c \in Registered, d \in Principals \ Registered, p \in UserPayloads :
       /\ p.name # ""
       /\ p.email # <<>>
       /\ p.email \in ShapelessEmails
       /\ CreateUser(c, p).res = Err("BadRequest", "Invalid input: Email is not valid")
       /\ CreateUser(d, p).res = Err("BadRequest", "Invalid input: Email is not valid")

\* A reading of the time source other than the current one.
OtherTime == (now + 1) % (MaxTime + 1)

\* The kind of the first failing check in the order registration, payload,
\* existence, ownership; Ok if none fails.
FirstFailure(unregistered, badPayload, missing, foreign) ==
  IF unregistered THEN "Unauthorized"
  ELSE IF badPayload THEN "BadRequest"
  ELSE IF missing THEN "NotFound"
  ELSE IF foreign THEN "Forbidden"
  ELSE "Ok"

\* C9: the returned kind is that of the first failing check in the listed
\* order, whatever the time of the call and the id uuidv4() would return:
\* updateMyTask Unauthorized, BadRequest, NotFound, Forbidden; toggleMyTask
\* and deleteMyTask Unauthorized, NotFound, Forbidden; updateMe and
\* createTask Unauthorized, BadRequest; createUser payload validation, then
\* the already-exists check.
C9_FirstFailingCheckWins ==
  \A c \in Principals, time \in {now, OtherTime} :
    LET unregistered == c \notin Registered IN
    /\ \A id \in CallIds :
         LET missing == id \notin Stored
             foreign == ~missing /\ taskStorage[id].owner # c
         IN /\ toggleMyTaskCall(userStorage, taskStorage, time, c, id).res.tag
                 = FirstFailure(unregistered, FALSE, missing, foreign)
            /\ DeleteMyTask(c, id).res.tag
                 = FirstFailure(unregistered, FALSE, missing, foreign)
            /\ \A p \in TaskPayloads :
                 updateMyTaskCall(userStorage, taskStorage, time, c, id, p).res.tag
                   = FirstFailure(unregistered, p.title = "", missing, foreign)
    /\ \A p \in TaskPayloads, uuid \in TaskIds :
         createTaskCall(userStorage, taskStorage, time, c, p, uuid).res.tag
           = FirstFailure(unregistered, p.title = "", FALSE, FALSE)
    /\ \A p \in UserPayloads :
         /\ updateMeCall(userStorage, taskStorage, time, c, p).res.tag
              = FirstFailure(unregistered, BadUserPayload(p), FALSE, FALSE)
         /\ LET res == createUserCall(userStorage, taskStorage, time, c, p).res IN
            /\ res.tag = IF BadUserPayload(p) \/ ~unregistered THEN "BadRequest" ELSE "Ok"
            /\ BadUserPayload(p) => res.value # "Invalid input: User already exists"
            /\ ~BadUserPayload(p) /\ ~unregistered
                 => res.value = "Invalid input: User already exists"

\* A registered caller passes an empty title and the id of another user's task, and an
\* unregistered caller an id that is not stored: two checks fail at once.
C9_Witness ==
  /\ \E c \in Registered, id \in Stored, p \in TaskPayloads :
       /\ taskStorage[id].owner # c
       /\ p.title = ""
       /\ UpdateMyTask(c, id, p).res.tag = "BadRequest"
  /\ \E c \in Registered, id \in CallIds \ Stored, p \in TaskPayloads :
       /\ p.title = ""
       /\ UpdateMyTask(c, id, p).res.tag = "BadRequest"

\* Every stored task is owned by a registered identity.
OwnerRegistered == \A id \in Stored : taskStorage[id].owner \in Registered

\* A task that stays stored keeps its owner (uuidv4() not repeating, an id
\* stored before and after a step is the same task).
OwnerFixed ==
  \A id \in Stored \cap DOMAIN taskStorage' :
    taskStorage'[id].owner = taskStorage[id].owner

\* C10: in every reachable state every stored task's owner is the id of a
\* user record, and no step changes the owner of a task that stays stored.
C10_OwnerRegisteredAndFixed == []OwnerRegistered /\ [][OwnerFixed]_vars

\* A task has been changed after its creation and is still owned by a registered identity.
C10_Witness ==
  \E id \in Stored :
    /\ taskStorage[id].updatedAt > taskStorage[id].createdAt
    /\ taskStorage[id].owner \in Registered

\* C11: in every reachable state every user record and every task record
\* has updatedAt >= createdAt, and neither stamp is later than the clock.
C11_UpdatedNotBeforeCreated ==
  /\ \A c \in Registered :
       /\ userStorage[c].createdAt <= userStorage[c].updatedAt
       /\ userStorage[c].updatedAt <= now
  /\ \A id \in Stored :
       /\ taskStorage[id].createdAt <= taskStorage[id].updatedAt
       /\ taskStorage[id].updatedAt <= now

\* A user record updated after the clock advanced stands beside a task record.
C11_Witness ==
  /\ \E c \in Registered : userStorage[c].updatedAt > userStorage[c].createdAt
  /\ \E id \in Stored : taskStorage[id].updatedAt >= taskStorage[id].createdAt

\* C12: every task record's id field is the key it is stored under; a
\* successful updateMyTask or toggleMyTask keeps the set of keys and the id
\* of the record under the key; createTask with an id the generator has not
\* returned before keeps every stored task and adds exactly one.
C12_TaskIdsUniqueAndFixed ==
  /\ \A id \in Stored : taskStorage[id].id = id
  /\ Stored \subseteq issued
  /\ \A id \in Stored, c \in Principals :
       /\ DOMAIN ToggleMyTask(c, id).taskStorage = Stored
       /\ ToggleMyTask(c, id).taskStorage[id].id = id
       /\ \A p \in TaskPayloads :
            /\ DOMAIN UpdateMyTask(c, id, p).taskStorage = Stored
            /\ UpdateMyTask(c, id, p).taskStorage[id].id = id
  /\ \A c \in Registered, p \in TaskPayloads, uuid \in TaskIds \ issued :
       p.title # "" =>
         LET out == CreateTask(c, p, uuid) IN
         /\ out.res.tag = "Ok"
         /\ out.res.value.id = uuid
         /\ uuid \notin Stored
         /\ DOMAIN out.taskStorage = Stored \cup {uuid}
         /\ Cardinality(DOMAIN out.taskStorage) = Cardinality(Stored) + 1
         /\ \A id \in Stored : out.taskStorage[id] = taskStorage[id]

\* Two tasks created one after the other are both stored, each under its own id.
C12_Witness ==
  /\ Cardinality(Stored) = 2
  /\ \A id \in Stored : taskStorage[id].id = id /\ id \in issued

\* C13: updateMe by a registered identity succeeds exactly when the payload
\* is valid; the record it returns is the one it stores under the caller,
\* has the payload's name and email, updatedAt equal to the current time and
\* the id and createdAt of the record stored before; getMe by the same
\* identity right after it returns that record.
C13_UpdateMeMerges ==
  \A c \in Registered, p \in UserPayloads :
    LET out == UpdateMe(c, p)
        u == out.res.value
    IN /\ out.res.tag = "Ok" <=> ~BadUserPayload(p)
       /\ out.res.tag = "Ok" =>
            /\ u.name = p.name
            /\ u.email = p.email
            /\ u.updatedAt = now
            /\ u.id = userStorage[c].id
            /\ u.id = c
            /\ u.createdAt = userStorage[c].createdAt
            /\ out.userStorage[c] = u
            /\ DOMAIN out.userStorage = Registered
            /\ getMeCall(out.userStorage, out.taskStorage, c).res = Ok(u)

\* A record updated at the current time, later than its creation, is what getMe returns.
C13_Witness ==
  \E c \in Registered :
    /\ userStorage[c].updatedAt = now
    /\ userStorage[c].createdAt < now
    /\ GetMe(c).res = Ok(userStorage[c])

\* The keys under which two tables differ.
Changed(before, after) ==
  {k \in (DOMAIN before) \cup (DOMAIN after) :
     \/ k \notin DOMAIN before
     \/ k \notin DOMAIN after
     \/ before[k] # after[k]}

\* C14: whatever the caller and the arguments, createUser and updateMe leave
\* the task table as it is and change no user entry but the caller's;
\* createTask, updateMyTask, toggleMyTask and deleteMyTask leave the user
\* table as it is and change no task entry but the one of the generated or
\* passed id; getMe and getMyTasks leave both tables as they are.
C14_OneKeyOfOneTable ==
  \A c \in Principals :
    /\ GetMe(c).userStorage = userStorage /\ GetMe(c).taskStorage = taskStorage
    /\ GetMyTasks(c).userStorage = userStorage /\ GetMyTasks(c).taskStorage = taskStorage
    /\ \A p \in UserPayloads :
         /\ CreateUser(c, p).taskStorage = taskStorage
         /\ Changed(userStorage, CreateUser(c, p).userStorage) \subseteq {c}
         /\ UpdateMe(c, p).taskStorage = taskStorage
         /\ Changed(userStorage, UpdateMe(c, p).userStorage) \subseteq {c}
    /\ \A p \in TaskPayloads, uuid \in TaskIds :
         /\ CreateTask(c, p, uuid).userStorage = userStorage
         /\ Changed(taskStorage, CreateTask(c, p, uuid).taskStorage) \subseteq {uuid}
    /\ \A id \in CallIds :
         /\ ToggleMyTask(c, id).userStorage = userStorage
         /\ Changed(taskStorage, ToggleMyTask(c, id).taskStorage) \subseteq {id}
         /\ DeleteMyTask(c, id).userStorage = userStorage
         /\ Changed(taskStorage, DeleteMyTask(c, id).taskStorage) \subseteq {id}
         /\ \A p \in TaskPayloads :
              /\ UpdateMyTask(c, id, p).userStorage = userStorage
              /\ Changed(taskStorage, UpdateMyTask(c, id, p).taskStorage) \subseteq {id}

\* An owner of two tasks deletes one of them and the other stays.
C14_Witness ==
  \E c \in Registered, id \in Stored :
    /\ Len(GetMyTasks(c).res.value) = 2
    /\ Changed(taskStorage, DeleteMyTask(c, id).taskStorage) = {id}

\* The stored tasks whose owner is c.
OwnedBy(c) == {taskStorage[id] : id \in {k \in Stored : taskStorage[k].owner = c}}

\* C17: for a registered caller getMyTasks returns Ok with a sequence that
\* holds each stored task of the caller once and nothing else: no task of
\* another owner, no task under a removed id, and the empty sequence when the
\* caller owns none.
C17_ListsExactlyOwnTasks ==
  \A c \in Registered :
    LET out == GetMyTasks(c)
        listed == out.res.value
    IN /\ out.res.tag = "Ok"
       /\ Range(listed) = OwnedBy(c)
       /\ Len(listed) = Cardinality(OwnedBy(c))
       /\ \A i \in 1..Len(listed) :
            /\ listed[i].owner = c
            /\ listed[i].id \in Stored
            /\ listed[i] = taskStorage[listed[i].id]
       /\ OwnedBy(c) = {} => listed = <<>>

\* Of two registered identities one owns a stored task and the other none.
C17_Witness ==
  \E c \in Registered, d \in Registered :
    /\ c # d
    /\ Len(GetMyTasks(c).res.value) = 1
    /\ GetMyTasks(d).res = Ok(<<>>)

\* No call but createUser by c makes a record for c, and no call but
\* updateMe by c changes the record of c; no call removes it.
UserTouchedOnlyByOwner ==
  \A c \in Principals, d \in Principals :
    LET same(users) ==
          IF c \in Registered
            THEN c \in DOMAIN users /\ users[c] = userStorage[c]
            ELSE c \notin DOMAIN users
    IN /\ same(GetMe(d).userStorage)
       /\ same(GetMyTasks(d).userStorage)
       /\ \A p \in UserPayloads :
            /\ (d # c \/ c \in Registered) => same(CreateUser(d, p).userStorage)
            /\ (d # c \/ c \notin Registered) => same(UpdateMe(d, p).userStorage)
            /\ c \in Registered => c \in DOMAIN UpdateMe(d, p).userStorage
       /\ \A p \in TaskPayloads, uuid \in TaskIds :
            same(CreateTask(d, p, uuid).userStorage)
       /\ \A id \in CallIds :
            /\ same(ToggleMyTask(d, id).userStorage)
            /\ same(DeleteMyTask(d, id).userStorage)
            /\ \A p \in TaskPayloads : same(UpdateMyTask(d, id, p).userStorage)

\* A registered identity is never Unauthorized for getMe and cannot register again.
RegisteredIsKnown ==
  \A c \in Registered :
    /\ userStorage[c].id = c
    /\ GetMe(c).res = Ok(userStorage[c])
    /\ \A p \in UserPayloads : CreateUser(c, p).res.tag = "BadRequest"

\* A step keeps every record; a record it makes is the one createUser by that
\* identity makes, and a record it changes is the one updateMe by that
\* identity stores.
UsersStep ==
  \A c \in Principals :
    /\ c \in DOMAIN userStorage => c \in DOMAIN userStorage'
    /\ (c \notin DOMAIN userStorage /\ c \in DOMAIN userStorage') =>
         \E p \in UserPayloads :
           /\ CreateUser(c, p).res.tag = "Ok"
           /\ userStorage' = CreateUser(c, p).userStorage
           /\ taskStorage' = taskStorage
    /\ (c \in DOMAIN userStorage /\ userStorage'[c] # userStorage[c]) =>
         \E p \in UserPayloads :
           /\ UpdateMe(c, p).res.tag = "Ok"
           /\ userStorage' = UpdateMe(c, p).userStorage
           /\ taskStorage' = taskStorage

\* C18: user records are made only by createUser, changed only by updateMe
\* of the same identity and never removed: once an identity has a record it
\* has one in every later state, getMe by it is not Unauthorized and
\* createUser by it is BadRequest.
C18_UsersOnlyGrow ==
  /\ [](UserTouchedOnlyByOwner /\ RegisteredIsKnown)
  /\ [][UsersStep]_vars

\* Two identities are registered, the earlier one with a record it has updated since.
C18_Witness ==
  \E c \in Registered, d \in Registered :
    /\ c # d
    /\ userStorage[c].updatedAt > userStorage[c].createdAt
    /\ userStorage[d].createdAt >= userStorage[c].updatedAt

\* C19: updateMyTask by the owner with a non-empty title returns Ok with
\* the record it stores under the id: title and description are the payload's
\* (an empty description included), updatedAt is the current time, and id,
\* owner, isCompleted and createdAt are those stored before; with an empty
\* title a registered caller gets BadRequest and the task table is unchanged.
C19_UpdateMyTaskMerges ==
  /\ \A id \in Stored, p \in TaskPayloads :
       LET old == taskStorage[id]
           out == UpdateMyTask(old.owner, id, p)
           t == out.res.value
       IN p.title # "" =>
            /\ out.res.tag = "Ok"
            /\ t.title = p.title
            /\ t.description = p.description
            /\ t.updatedAt = now
            /\ t.id = old.id
            /\ t.owner = old.owner
            /\ t.isCompleted = old.isCompleted
            /\ t.createdAt = old.createdAt
            /\ out.taskStorage = insert(taskStorage, id, t)
  /\ \A c \in Registered, id \in CallIds, p \in TaskPayloads :
       p.title = "" =>
         /\ UpdateMyTask(c, id, p).res = Err("BadRequest", "Invalid input: Title is required")
         /\ UpdateMyTask(c, id, p).taskStorage = taskStorage

\* A task updated after the clock advanced: its description is empty and it is not completed.
C19_Witness ==
  \E id \in Stored :
    /\ taskStorage[id].updatedAt = now
    /\ taskStorage[id].createdAt < now
    /\ taskStorage[id].description = ""
    /\ ~taskStorage[id].isCompleted

ErrorTags == {"BadRequest", "Unauthorized", "Forbidden", "NotFound", "InternalError"}

\* The outcome is Ok or one of the five errors, and an error comes with both tables as they are.
ErrorKeepsTables(out) ==
  /\ out.res.tag \in ErrorTags \cup {"Ok"}
  /\ out.res.tag \in ErrorTags =>
       /\ out.userStorage = userStorage
       /\ out.taskStorage = taskStorage

\* C15: whatever the caller, the arguments and the store call that throws,
\* if any, a call that returns BadRequest, Unauthorized, Forbidden, NotFound
\* or InternalError leaves the user table and the task table as they were.
C15_ErrorLeavesTables ==
  \A c \in Principals, fault \in Faults :
    /\ ErrorKeepsTables(getMeTry(userStorage, taskStorage, c, fault))
    /\ ErrorKeepsTables(getMyTasksTry(userStorage, taskStorage, c, fault))
    /\ \A p \in UserPayloads :
         /\ ErrorKeepsTables(createUserTry(userStorage, taskStorage, now, c, p, fault))
         /\ ErrorKeepsTables(updateMeTry(userStorage, taskStorage, now, c, p, fault))
    /\ \A p \in TaskPayloads, uuid \in TaskIds :
         ErrorKeepsTables(createTaskTry(userStorage, taskStorage, now, c, p, uuid, fault))
    /\ \A id \in CallIds :
         /\ ErrorKeepsTables(toggleMyTaskTry(userStorage, taskStorage, now, c, id, fault))
         /\ ErrorKeepsTables(deleteMyTaskTry(userStorage, taskStorage, c, id, fault))
         /\ \A p \in TaskPayloads :
              ErrorKeepsTables(updateMyTaskTry(userStorage, taskStorage, now, c, id, p, fault))

\* A stored task faces its owner, whose toggle fails at the insert, and a
\* registered identity that is not its owner, whose toggle is Forbidden.
C15_Witness ==
  \E id \in Stored, d \in Registered :
    /\ d # taskStorage[id].owner
    /\ ToggleMyTask(d, id).res.tag = "Forbidden"
    /\ toggleMyTaskTry(userStorage, taskStorage, now, taskStorage[id].owner, id,
                       [at |-> 4, text |-> "Error: out of memory"]).res.tag = "InternalError"

GenericInternalError == Err("InternalError", "Internal server error")

\* The outcome `got` of a mutation whose try block has outcome `out` when no
\* store call throws: it is `out`, or InternalError with the one generic
\* message and both tables as they are; it is the latter when the first
\* store call the execution reaches throws and when the execution gets to
\* its write (the store call number `write`) and that call or an earlier one
\* throws.
FaultIsCaught(out, got, fault, reached, write) ==
  /\ out.res.tag # "InternalError"
  /\ \/ got = out
     \/ got = Outcome(GenericInternalError, userStorage, taskStorage)
  /\ fault.at = 0 => got = out
  /\ (reached /\ fault.at = 1) => got.res = GenericInternalError
  /\ (out.res.tag = "Ok" /\ fault.at \in 1..write) => got.res = GenericInternalError

\* C16: in createUser, updateMe, createTask, updateMyTask, toggleMyTask and
\* deleteMyTask a store call that throws, whichever it is and whatever it
\* throws, makes the method return InternalError with the message
\* "Internal server error", the same for every fault, and leaves both tables
\* as they are; the method returns a value in every case.
C16_StoreFaultIsInternalError ==
  \A c \in Principals, fault \in Faults :
    /\ \A p \in UserPayloads :
         /\ FaultIsCaught(CreateUser(c, p),
                          createUserTry(userStorage, taskStorage, now, c, p, fault),
                          fault, ~BadUserPayload(p), 2)
         /\ FaultIsCaught(UpdateMe(c, p),
                          updateMeTry(userStorage, taskStorage, now, c, p, fault),
                          fault, TRUE, 3)
    /\ \A p \in TaskPayloads, uuid \in TaskIds :
         FaultIsCaught(CreateTask(c, p, uuid),
                       createTaskTry(userStorage, taskStorage, now, c, p, uuid, fault),
                       fault, TRUE, 2)
    /\ \A id \in CallIds :
         /\ FaultIsCaught(ToggleMyTask(c, id),
                          toggleMyTaskTry(userStorage, taskStorage, now, c, id, fault),
                          fault, TRUE, 4)
         /\ FaultIsCaught(DeleteMyTask(c, id),
                          deleteMyTaskTry(userStorage, taskStorage, c, id, fault),
                          fault, TRUE, 4)
         /\ \A p \in TaskPayloads :
              FaultIsCaught(UpdateMyTask(c, id, p),
                            updateMyTaskTry(userStorage, taskStorage, now, c, id, p, fault),
                            fault, TRUE, 4)

\* The remove of a stored task by its owner throws, and so does the insert
\* of a profile update, each with another text.
C16_Witness ==
  \E id \in Stored, p \in UserPayloads :
    LET c == taskStorage[id].owner IN
    /\ DeleteMyTask(c, id).res.tag = "Ok"
    /\ deleteMyTaskTry(userStorage, taskStorage, c, id,
                       [at |-> 4, text |-> "Error: failed to decode"]).res = GenericInternalError
    /\ UpdateMe(c, p).res.tag = "Ok"
    /\ updateMeTry(userStorage, taskStorage, now, c, p,
                   [at |-> 3, text |-> "Error: out of memory"]).res = GenericInternalError

\* The task table lacks a change of a call that returned Ok: a task removed
\* by one is stored, or a stored task differs from what the calls that
\* returned Ok make of it.
Lost(id) ==
  /\ expect[id].known
  /\ IF expect[id].gone THEN id \in Stored
     ELSE id \notin Stored \/ ContentOf(taskStorage[id]) # expect[id]

\* C20: with the read of a task and its write-back in separate steps, the
\* table lacks a change of a call that returned Ok only for a task on which
\* two executions were in flight together; executions that run one after the
\* other, each as one piece, lose nothing.
C20_LossOnlyWhenOverlapped ==
  \A id \in TaskIds : Lost(id) => id \in overlapped

\* Two executions on one task were in flight together, both returned Ok, and
\* the table lacks the change of one of them.
C20_Witness ==
  /\ \A s \in Slots : inflight[s] = Returned
  /\ \E id \in overlapped : Lost(id)

\* What identity a observes after a call with outcome `out` is what it observes now.
SameView(a, out) ==
  /\ getMeCall(out.userStorage, out.taskStorage, a).res = GetMe(a).res
  /\ getMyTasksCall(out.userStorage, out.taskStorage, a).res = GetMyTasks(a).res

\* No call by b, whatever its arguments and its result, changes what getMe
\* and getMyTasks return to another registered identity a.
OthersViewKept ==
  \A a \in Registered, b \in Registered :
    a # b =>
      /\ SameView(a, GetMe(b))
      /\ SameView(a, GetMyTasks(b))
      /\ \A p \in UserPayloads :
           SameView(a, CreateUser(b, p)) /\ SameView(a, UpdateMe(b, p))
      /\ \A p \in TaskPayloads, uuid \in TaskIds \ issued :
           SameView(a, CreateTask(b, p, uuid))
      /\ \A id \in CallIds :
           /\ SameView(a, ToggleMyTask(b, id))
           /\ SameView(a, DeleteMyTask(b, id))
           /\ \A p \in TaskPayloads : SameView(a, UpdateMyTask(b, id, p))

\* A call by anyone but the registered owner leaves a stored task as it is.
TaskTouchedOnlyByOwner ==
  \A id \in Stored, c \in Principals :
    (c # taskStorage[id].owner \/ c \notin Registered) =>
      LET kept(tasks) == id \in DOMAIN tasks /\ tasks[id] = taskStorage[id] IN
      /\ kept(ToggleMyTask(c, id).taskStorage)
      /\ kept(DeleteMyTask(c, id).taskStorage)
      /\ \A p \in TaskPayloads : kept(UpdateMyTask(c, id, p).taskStorage)
      /\ \A p \in TaskPayloads, uuid \in TaskIds \ issued :
           kept(CreateTask(c, p, uuid).taskStorage)

\* A step that changes or removes a stored task is an updateMyTask, a
\* toggleMyTask or a deleteMyTask of that task by its owner, who is registered.
TasksStep ==
  \A id \in DOMAIN taskStorage :
    (id \notin DOMAIN taskStorage' \/ taskStorage'[id] # taskStorage[id]) =>
      LET c == taskStorage[id].owner IN
      /\ c \in Registered
      /\ userStorage' = userStorage
      /\ \/ ToggleMyTask(c, id).res.tag = "Ok"
            /\ taskStorage' = ToggleMyTask(c, id).taskStorage
         \/ DeleteMyTask(c, id).res.tag = "Ok"
            /\ taskStorage' = DeleteMyTask(c, id).taskStorage
         \/ \E p \in TaskPayloads :
              /\ UpdateMyTask(c, id, p).res.tag = "Ok"
              /\ taskStorage' = UpdateMyTask(c, id, p).taskStorage

\* C21: for two distinct registered identities, no call by one changes the
\* result of getMe or of getMyTasks by the other; a stored task is changed
\* or removed only by a call of its owner, who is registered.
C21_NoInterference ==
  /\ [](OthersViewKept /\ TaskTouchedOnlyByOwner)
  /\ [][TasksStep]_vars

\* Of two registered identities one owns a stored task; the other can update
\* its own profile and is refused the removal of that task.
C21_Witness ==
  \E a \in Registered, b \in Registered, id \in Stored, p \in UserPayloads :
    /\ a # b
    /\ taskStorage[id].owner = a
    /\ UpdateMe(b, p).res.tag = "Ok"
    /\ DeleteMyTask(b, id).res = NotOwner

\* toggleMyTask at time t1, then updateMyTask at time t2, both by c on id.
ToggleThenUpdate(c, id, p, t1, t2) ==
  LET first == toggleMyTaskCall(userStorage, taskStorage, t1, c, id) IN
  [first |-> first,
   second |-> updateMyTaskCall(first.userStorage, first.taskStorage, t2, c, id, p)]

\* updateMyTask at time t1, then toggleMyTask at time t2, both by c on id.
UpdateThenToggle(c, id, p, t1, t2) ==
  LET first == updateMyTaskCall(userStorage, taskStorage, t1, c, id, p) IN
  [first |-> first,
   second |-> toggleMyTaskCall(first.userStorage, first.taskStorage, t2, c, id)]

\* C22: from any reachable state, toggleMyTask and updateMyTask by the owner
\* on one task, with a non-empty title, each run as one step, succeed in
\* either order and leave the same tables but for the task's updatedAt: the
\* same title, description, isCompleted, owner, id and createdAt, with the
\* payload's title and description and isCompleted flipped once.
C22_ToggleUpdateCommute ==
  \A id \in Stored, p \in TaskPayloads, t2 \in now..MaxTime :
    p.title # "" =>
      LET c == taskStorage[id].owner
          tu == ToggleThenUpdate(c, id, p, now, t2)
          ut == UpdateThenToggle(c, id, p, now, t2)
          x == tu.second.taskStorage
          y == ut.second.taskStorage
      IN /\ tu.first.res.tag = "Ok" /\ tu.second.res.tag = "Ok"
         /\ ut.first.res.tag = "Ok" /\ ut.second.res.tag = "Ok"
         /\ tu.second.userStorage = userStorage
         /\ ut.second.userStorage = userStorage
         /\ DOMAIN x = Stored /\ DOMAIN y = Stored
         /\ \A k \in Stored \ {id} : x[k] = taskStorage[k] /\ y[k] = taskStorage[k]
         /\ BaseOf(x[id]) = BaseOf(y[id])
         /\ BaseOf(x[id]) = [BaseOf(taskStorage[id]) EXCEPT
                               !.title = p.title,
                               !.description = p.description,
                               !.isCompleted = ~taskStorage[id].isCompleted]
         /\ x[id].updatedAt = t2 /\ y[id].updatedAt = t2

\* A completed task whose owner can toggle it and can give it another
\* description, at a time the clock can still advance from.
C22_Witness ==
  \E id \in Stored, p \in TaskPayloads :
    /\ taskStorage[id].isCompleted
    /\ p.description # taskStorage[id].description
    /\ now < MaxTime
    /\ UpdateMyTask(taskStorage[id].owner, id, p).res.tag = "Ok"
    /\ ToggleMyTask(taskStorage[id].owner, id).res.tag = "Ok"

====
